---- MODULE Spec2Model ----
(***************************************************************************)
(* The STRIPS regression planner for the 8-puzzle (strips.py) and the way  *)
(* run.py builds its input.  A board is a set of positions, each position  *)
(* a tuple <<"on", n, i, j>> or <<"clear", 0, i, j>>; a move is a tuple    *)
(* <<"move", n, i, j, k, l>>.  Python indexes tuples from 0 and TLA+ from  *)
(* 1, so s[2], s[3] of the source are s[3], s[4] here and move[2..5] are   *)
(* move[3..6].                                                             *)
(***************************************************************************)
EXTENDS Integers, Sequences, FiniteSets, TLC

(***************************************************************************)
(* Bounds of the exploration.                                              *)
(***************************************************************************)
\* the inputs are the boards at most MaxScramble slides away from the goal
\* board, and those at most MaxScramble - 2 slides away again with tiles 1
\* and 2 exchanged
MaxScramble == 3
\* longest list of moves one call of run builds
MaxOps == 2
\* number of calls of run on one planner
MaxCalls == 2
\* largest time budget, in clock ticks
MaxBudget == 1
\* largest number of lines of the input file of the file mode
MaxLines == 2

(***************************************************************************)
(* Input boards, as the list of nine integers run.py parses them into.     *)
(***************************************************************************)
GoalList == <<1, 2, 3, 8, 0, 4, 7, 6, 5>>

BlankIndex(l) == CHOOSE p \in 1..9 : l[p] = 0

SwapAt(l, p, q) == [l EXCEPT ![p] = l[q], ![q] = l[p]]

SlideTargets(p) ==
  {q \in 1..9 : \/ q = p - 3
                \/ q = p + 3
                \/ (q = p - 1 /\ (p - 1) % 3 # 0)
                \/ (q = p + 1 /\ p % 3 # 0)}

Slides(l) == {SwapAt(l, BlankIndex(l), q) : q \in SlideTargets(BlankIndex(l))}

RECURSIVE Scrambled(_)
Scrambled(k) ==
  IF k = 0 THEN {GoalList}
  ELSE Scrambled(k - 1) \cup UNION {Slides(l) : l \in Scrambled(k - 1)}

IndexOf(l, n) == CHOOSE p \in 1..9 : l[p] = n

ExchangeTiles(l) == SwapAt(l, IndexOf(l, 1), IndexOf(l, 2))

InputLists ==
  Scrambled(MaxScramble) \cup {ExchangeTiles(l) : l \in Scrambled(MaxScramble - 2)}

Budgets == 0..MaxBudget

\* the lines an input file is made of
FileLines == Scrambled(1) \cup {ExchangeTiles(GoalList)}

FileContents == UNION {[1..n -> FileLines] : n \in 0..MaxLines}

\* what time() - tic of run_file_mode may have grown by, in seconds, when
\* the next line is read
FileTicks == {0, 30, 61}

\* run_file_mode: if (time() - tic) > 60
FileLimit == 60

\* what the clock may advance by during one iteration of the loop of run
Ticks == 0..1

(***************************************************************************)
(* run.py: convert_from_str_to_positions, after the integers are parsed.   *)
(***************************************************************************)
convert_from_str_to_positions(list_curr_state) ==
  {IF list_curr_state[3 * (i - 1) + j] # 0
     THEN <<"on", list_curr_state[3 * (i - 1) + j], i, j>>
     ELSE <<"clear", 0, i, j>> : <<i, j>> \in (1..3) \X (1..3)}

VARIABLES
  initial_state,         \* Strips.initial_state.positions
  max_elaps_time,        \* Strips.max_elaps_time, in ticks
  goal_state,            \* Strips.goal_state.positions
  current_state,         \* Strips.current_state.positions
  pc,                    \* "idle": no call of run is active; "loop": at the while test
  performed_operations,  \* the local list of run
  time_diff,             \* time() - tic of the active (or last) call
  result,                \* what the last call of run that ended returned
  calls,                 \* number of calls of run begun
  start_state,           \* history: current_state when the active call began
  history,               \* history: every move regressed on this planner
  call_begin,            \* history: Len(history) when the active call began
  fpc,                   \* run_file_mode: "none" (not the file mode), "read", "solve", "done"
  input_file,            \* run_file_mode: the lines not yet read
  file_elapsed,          \* run_file_mode: time() - tic at the last test, at most FileLimit + 1
  announced,             \* run_file_mode: the messages of the 1 minute limit were printed
  output_file            \* run_file_mode: the solutions written

vars == <<initial_state, max_elaps_time, goal_state, current_state, pc,
          performed_operations, time_diff, result, calls, start_state,
          history, call_begin, fpc, input_file, file_elapsed, announced, output_file>>

fvars == <<fpc, input_file, file_elapsed, announced, output_file>>

(***************************************************************************)
(* strips.py: class State.                                                 *)
(***************************************************************************)
\* get_clear returns the cell of the first "clear" position the iteration
\* over the set meets: the set of the cells it can return (empty: None)
get_clear(positions) ==
  {<<s[3], s[4]>> : s \in {t \in positions : t[1] = "clear"}}

\* get_number returns the number of the first position at cell (i, j) the
\* iteration meets: the set of the numbers it can return (empty: None)
get_number(positions, i, j) ==
  {s[2] : s \in {t \in positions : t[3] = i /\ t[4] = j}}

\* one of the four tests of get_possible_moves: the sets it can add
TestMove(positions, ci, cj, ni, nj, inGrid) ==
  IF inGrid
    THEN {{<<"move", n, ci, cj, ni, nj>>} : n \in get_number(positions, ni, nj)}
    ELSE {{}}

\* get_possible_moves with the test for moving down off by one
get_possible_movesShortDown(positions) ==
  UNION {{up \cup down \cup left \cup right :
            up \in TestMove(positions, c[1], c[2], c[1] - 1, c[2], (c[1] - 1) > 0),
            down \in TestMove(positions, c[1], c[2], c[1] + 1, c[2], (c[1] + 1) < 3),
            left \in TestMove(positions, c[1], c[2], c[1], c[2] - 1, (c[2] - 1) > 0),
            right \in TestMove(positions, c[1], c[2], c[1], c[2] + 1, (c[2] + 1) < 4)}
         : c \in get_clear(positions)}

\* one test of get_possible_moves with the cells of the move exchanged
TestMoveSwapped(positions, ci, cj, ni, nj, inGrid) ==
  IF inGrid
    THEN {{<<"move", n, ni, nj, ci, cj>>} : n \in get_number(positions, ni, nj)}
    ELSE {{}}

\* get_possible_moves naming the tile's cell as "from" and the clear cell as "to"
get_possible_movesSwapped(positions) ==
  UNION {{up \cup down \cup left \cup right :
            up \in TestMoveSwapped(positions, c[1], c[2], c[1] - 1, c[2], (c[1] - 1) > 0),
            down \in TestMoveSwapped(positions, c[1], c[2], c[1] + 1, c[2], (c[1] + 1) < 4),
            left \in TestMoveSwapped(positions, c[1], c[2], c[1], c[2] - 1, (c[2] - 1) > 0),
            right \in TestMoveSwapped(positions, c[1], c[2], c[1], c[2] + 1, (c[2] + 1) < 4)}
         : c \in get_clear(positions)}

\* the sets of moves get_possible_moves can return (one set on a board with
\* one clear position and one position per cell)
get_possible_moves(positions) ==
  UNION {{up \cup down \cup left \cup right :
            up \in TestMove(positions, c[1], c[2], c[1] - 1, c[2], (c[1] - 1) > 0),
            down \in TestMove(positions, c[1], c[2], c[1] + 1, c[2], (c[1] + 1) < 4),
            left \in TestMove(positions, c[1], c[2], c[1], c[2] - 1, (c[2] - 1) > 0),
            right \in TestMove(positions, c[1], c[2], c[1], c[2] + 1, (c[2] + 1) < 4)}
         : c \in get_clear(positions)}

(***************************************************************************)
(* strips.py: class Strips.                                                *)
(***************************************************************************)
\* the operators computed with range(1,8) for the tiles
possible_operatorsShort ==
  {m \in {"move"} \X (1..7) \X (1..3) \X (1..3) \X (1..3) \X (1..3) :
     \/ (m[5] = m[3] - 1 /\ m[6] = m[4] /\ (m[3] - 1) > 0)
     \/ (m[5] = m[3] + 1 /\ m[6] = m[4] /\ (m[3] + 1) < 4)
     \/ (m[5] = m[3] /\ m[6] = m[4] - 1 /\ (m[4] - 1) > 0)
     \/ (m[5] = m[3] /\ m[6] = m[4] + 1 /\ (m[4] + 1) < 4)}

possible_operators ==
  {m \in {"move"} \X (1..8) \X (1..3) \X (1..3) \X (1..3) \X (1..3) :
     \/ (m[5] = m[3] - 1 /\ m[6] = m[4] /\ (m[3] - 1) > 0)
     \/ (m[5] = m[3] + 1 /\ m[6] = m[4] /\ (m[3] + 1) < 4)
     \/ (m[5] = m[3] /\ m[6] = m[4] - 1 /\ (m[4] - 1) > 0)
     \/ (m[5] = m[3] /\ m[6] = m[4] + 1 /\ (m[4] + 1) < 4)}

\* the dictionary __init__ builds and stores in self.operators; no statement
\* of strips.py assigns self.operators again or writes to the dictionary
operators ==
  [move \in possible_operators |->
     [preconditions |-> {<<"on", move[2], move[3], move[4]>>, <<"clear", 0, move[5], move[6]>>},
      add |-> {<<"on", move[2], move[5], move[6]>>, <<"clear", 0, move[3], move[4]>>},
      remove |-> {<<"on", move[2], move[3], move[4]>>, <<"clear", 0, move[5], move[6]>>}]]

GoalPositions ==
  {<<"on", 1, 1, 1>>, <<"on", 2, 1, 2>>, <<"on", 3, 1, 3>>,
   <<"on", 8, 2, 1>>, <<"clear", 0, 2, 2>>, <<"on", 4, 2, 3>>,
   <<"on", 7, 3, 1>>, <<"on", 6, 3, 2>>, <<"on", 5, 3, 3>>}

\* update_current_state that clears the "from" cell of the move only
update_current_stateFromOnly(current, move) ==
  (current \ {s \in current : s[3] = move[3] /\ s[4] = move[4]})
  \cup operators[move].preconditions

\* update_current_state that adds the add-list of the move
update_current_stateAdd(current, move) ==
  (current \ {s \in current : \/ (s[3] = move[3] /\ s[4] = move[4])
                              \/ (s[3] = move[5] /\ s[4] = move[6])})
  \cup operators[move].add

update_current_state(current, move) ==
  (current \ {s \in current : \/ (s[3] = move[3] /\ s[4] = move[4])
                              \/ (s[3] = move[5] /\ s[4] = move[6])})
  \cup operators[move].preconditions

\* the loop of pick_move with >= for >: a tie replaces the winners
RECURSIVE pick_loopLast(_, _, _, _)
pick_loopLast(rest, winner, winner_points, initial) ==
  IF rest = {} THEN winner
  ELSE LET move == CHOOSE m \in rest : TRUE
           pc_ == operators[move].preconditions
           move_pts == Cardinality(pc_ \cap initial)
       IN  IF move_pts >= winner_points
             THEN pick_loopLast(rest \ {move}, {move}, move_pts, initial)
             ELSE pick_loopLast(rest \ {move}, winner, winner_points, initial)

\* the loop of pick_move over the moves not yet visited
RECURSIVE pick_loop(_, _, _, _)
pick_loop(rest, winner, winner_points, initial) ==
  IF rest = {} THEN winner
  ELSE LET move == CHOOSE m \in rest : TRUE
           pc_ == operators[move].preconditions
           move_pts == Cardinality(pc_ \cap initial)
       IN  IF move_pts > winner_points
             THEN pick_loop(rest \ {move}, {move}, move_pts, initial)
             ELSE IF move_pts = winner_points
               THEN pick_loop(rest \ {move}, winner \cup {move}, winner_points, initial)
               ELSE pick_loop(rest \ {move}, winner, winner_points, initial)

\* pick_move without the points: any of the possible moves
pick_moveAny(possible_moves, initial) == possible_moves

\* pick_move returning one fixed winner for random choice
pick_moveFixed(possible_moves, initial) ==
  IF pick_loop(possible_moves, {}, -1, initial) = {} THEN {}
  ELSE {CHOOSE m \in pick_loop(possible_moves, {}, -1, initial) : TRUE}

\* the moves pick_move can return: choice(list(winner))
pick_move(possible_moves, initial) == pick_loop(possible_moves, {}, -1, initial)

\* the while condition satisfied with two positions still different
LoopCondLoose(current, initial) == Cardinality(current \cap initial) < 7

\* the while condition true of equal boards too
LoopCondAlways(current, initial) == Cardinality(current \cap initial) <= 9

\* the condition of the while loop of run
LoopCond(current, initial) == Cardinality(current \cap initial) < 9

\* a reverse that leaves the list as it is
ReverseKeep(s) == s

Reverse(s) == [k \in 1..Len(s) |-> s[Len(s) + 1 - k]]

\* run without performed_operations.reverse()
RunResultNoReverse(has_solution, ops) == <<has_solution, ops>>

\* run that never sets has_solution to False
RunResultAlwaysTrue(has_solution, ops) == <<TRUE, Reverse(ops)>>

\* the end of run: the value it returns
RunResult(has_solution, ops) ==
  IF has_solution THEN <<has_solution, Reverse(ops)>> ELSE <<has_solution, ops>>

\* State(positions), Strips(initial_state, max_elaps_time = max_time)
Init ==
  /\ \E l \in InputLists : initial_state = convert_from_str_to_positions(l)
  /\ max_elaps_time \in Budgets
  /\ goal_state = GoalPositions
  /\ current_state = GoalPositions
  /\ pc = "idle"
  /\ performed_operations = <<>>
  /\ time_diff = 0
  /\ result = <<>>
  /\ calls = 0
  /\ start_state = GoalPositions
  /\ history = <<>>
  /\ call_begin = 0
  /\ fpc = "none"
  /\ input_file = <<>>
  /\ file_elapsed = 0
  /\ announced = FALSE
  /\ output_file = <<>>

\* run that starts again from a copy of the goal state
RunStartReset ==
  /\ pc = "idle"
  /\ calls < MaxCalls
  /\ pc' = "loop"
  /\ calls' = calls + 1
  /\ performed_operations' = <<>>
  /\ time_diff' = 0
  /\ current_state' = goal_state
  /\ start_state' = goal_state
  /\ call_begin' = Len(history)
  /\ UNCHANGED <<initial_state, max_elaps_time, goal_state, result, history, fvars>>

\* run is called: tic = time(), has_solution = True, performed_operations = []
RunStart ==
  /\ pc = "idle"
  /\ calls < MaxCalls
  /\ pc' = "loop"
  /\ calls' = calls + 1
  /\ performed_operations' = <<>>
  /\ time_diff' = 0
  /\ start_state' = current_state
  /\ call_begin' = Len(history)
  /\ UNCHANGED <<initial_state, max_elaps_time, goal_state, current_state, result, history, fvars>>

\* the budget test with the two clock readings exchanged: tic - tac
BudgetExceededSwapped(diff, max_time) == (0 - diff) > max_time

\* the budget test of the loop: time_diff > self.max_elaps_time
BudgetExceeded(diff, max_time) == diff > max_time

\* one iteration of the while loop, the clock advancing by one of the ticks
\* D; when the budget is exceeded the loop breaks and run returns
LoopStep(D) ==
  /\ pc = "loop"
  /\ LoopCond(current_state, initial_state)
  /\ Len(performed_operations) < MaxOps
  /\ \E possible_moves \in get_possible_moves(current_state) :
       \E chosen_move \in pick_move(possible_moves, initial_state) :
         \E d \in D :
           /\ current_state' = update_current_state(current_state, chosen_move)
           /\ history' = Append(history, chosen_move)
           /\ time_diff' = time_diff + d
           /\ IF BudgetExceeded(time_diff', max_elaps_time)
                THEN /\ pc' = "idle"
                     /\ result' = RunResult(FALSE, Append(performed_operations, chosen_move))
                     /\ performed_operations' = <<>>
                ELSE /\ pc' = "loop"
                     /\ result' = result
                     /\ performed_operations' = Append(performed_operations, chosen_move)
  /\ UNCHANGED <<initial_state, max_elaps_time, calls, start_state, call_begin, fvars>>

\* the iteration of the loop regressing a current state that shares its
\* set of positions with the goal state
LoopBodyAliased == LoopStep(Ticks) /\ goal_state' = current_state'

\* the iteration of the loop, the clock advancing or not
LoopBody == LoopStep(Ticks) /\ UNCHANGED goal_state

\* the iteration of the loop when the clock advances during every iteration
LoopBodyClock == LoopStep(Ticks \ {0}) /\ UNCHANGED goal_state

\* the while test fails: run returns with has_solution still True
RunReturn ==
  /\ pc = "loop"
  /\ ~LoopCond(current_state, initial_state)
  /\ pc' = "idle"
  /\ result' = RunResult(TRUE, performed_operations)
  /\ performed_operations' = <<>>
  /\ UNCHANGED <<initial_state, max_elaps_time, goal_state, current_state,
                 time_diff, calls, start_state, history, call_begin, fvars>>

Next == RunStart \/ LoopBody \/ RunReturn

Spec == Init /\ [][Next]_vars

(***************************************************************************)
(* The planner with a clock that advances during every iteration of the    *)
(* loop; a call of run that has begun keeps executing.                     *)
(***************************************************************************)
LiveNext == RunStart \/ LoopBodyClock \/ RunReturn

LiveSpec == Init /\ [][LiveNext]_vars /\ WF_vars(LoopBodyClock) /\ WF_vars(RunReturn)

(***************************************************************************)
(* run.py: run_file_mode.  One planner is built for each line of the       *)
(* input file and run is called on it until it returns success.            *)
(***************************************************************************)
\* open(file_name), tic = time(); no planner exists yet
FileInit ==
  /\ input_file \in FileContents
  /\ max_elaps_time \in Budgets
  /\ fpc = "read"
  /\ file_elapsed = 0
  /\ announced = FALSE
  /\ output_file = <<>>
  /\ initial_state = {}
  /\ goal_state = {}
  /\ current_state = {}
  /\ pc = "idle"
  /\ performed_operations = <<>>
  /\ time_diff = 0
  /\ result = <<>>
  /\ calls = 0
  /\ start_state = {}
  /\ history = <<>>
  /\ call_begin = 0

\* the head of the outer loop: readline, the end-of-file test, the test of
\* the 1 minute limit, and the planner built for the line
FileReadLine ==
  /\ fpc = "read"
  /\ IF Len(input_file) = 0
       THEN /\ fpc' = "done"
            /\ UNCHANGED <<initial_state, max_elaps_time, goal_state, current_state,
                           pc, performed_operations, time_diff, result, calls,
                           start_state, history, call_begin, input_file, file_elapsed,
                           announced, output_file>>
       ELSE /\ input_file' = Tail(input_file)
            /\ \E d \in FileTicks :
                 file_elapsed' = IF file_elapsed + d > FileLimit
                                   THEN FileLimit + 1 ELSE file_elapsed + d
            /\ announced' = (announced \/ file_elapsed' > FileLimit)
            /\ initial_state' = convert_from_str_to_positions(Head(input_file))
            /\ goal_state' = GoalPositions
            /\ current_state' = GoalPositions
            /\ pc' = "idle"
            /\ performed_operations' = <<>>
            /\ time_diff' = 0
            /\ result' = <<>>
            /\ calls' = 0
            /\ start_state' = GoalPositions
            /\ history' = <<>>
            /\ call_begin' = 0
            /\ fpc' = "solve"
            /\ UNCHANGED <<max_elaps_time, output_file>>

\* the inner loop calls run, the first time and after every failure
FileRun ==
  /\ fpc = "solve"
  /\ pc = "idle"
  /\ IF calls = 0 THEN TRUE ELSE ~result[1]
  /\ RunStart

\* run returned success: the solution is written and the inner loop left
FileSolved ==
  /\ fpc = "solve"
  /\ pc = "idle" /\ calls >= 1 /\ result[1]
  /\ output_file' = Append(output_file, result[2])
  /\ fpc' = "read"
  /\ UNCHANGED <<initial_state, max_elaps_time, goal_state, current_state, pc,
                 performed_operations, time_diff, result, calls, start_state, history,
                 call_begin, input_file, file_elapsed, announced>>

FileNext == FileReadLine \/ FileRun \/ LoopBody \/ RunReturn \/ FileSolved

FileSpec == FileInit /\ [][FileNext]_vars

(***************************************************************************)
(* The vocabulary of the properties.                                       *)
(***************************************************************************)
\* the goal board 1 2 3 / 8 _ 4 / 7 6 5
GoalBoard == convert_from_str_to_positions(<<1, 2, 3, 8, 0, 4, 7, 6, 5>>)

\* a call of run has returned and `result` is what it returned
Returned == pc = "idle" /\ calls >= 1

\* the board after a move is applied forward: delete-list, then add-list
ApplyMove(board, move) == (board \ operators[move].remove) \cup operators[move].add

RECURSIVE Forward(_, _)
Forward(board, ops) ==
  IF ops = <<>> THEN board ELSE Forward(ApplyMove(board, Head(ops)), Tail(ops))

\* every move of ops finds its two preconditions in the board it is applied to
RECURSIVE Executable(_, _)
Executable(board, ops) ==
  IF ops = <<>> THEN TRUE
  ELSE /\ Head(ops) \in DOMAIN operators
       /\ operators[Head(ops)].preconditions \subseteq board
       /\ Executable(ApplyMove(board, Head(ops)), Tail(ops))

\* a board: nine positions, one per cell, one of them clear and the others
\* holding the tiles 1..8 once each
WellFormed(board) ==
  /\ Cardinality(board) = 9
  /\ Cardinality({s \in board : s[1] = "clear"}) = 1
  /\ \A s \in board : s[1] \in {"on", "clear"}
  /\ {s[2] : s \in {t \in board : t[1] = "on"}} = 1..8
  /\ {<<s[3], s[4]>> : s \in board} = (1..3) \X (1..3)

\* the pairs of tiles of a board that stand in descending order when the
\* board is read in row-major order
Inversions(board) ==
  Cardinality({p \in {s \in board : s[1] = "on"} \X {s \in board : s[1] = "on"} :
                 /\ 3 * p[1][3] + p[1][4] < 3 * p[2][3] + p[2][4]
                 /\ p[1][2] > p[2][2]})

GoalInversions == Inversions(GoalBoard)

\* the board is an odd permutation of the goal board: no slides lead from one to the other
OddToGoal(board) == Inversions(board) % 2 # GoalInversions % 2

BlankCells(board) == {<<s[3], s[4]>> : s \in {t \in board : t[1] = "clear"}}

Corners == {<<1, 1>>, <<1, 3>>, <<3, 1>>, <<3, 3>>}

Center == {<<2, 2>>}

\* what C9 expects of the board: 2 in a corner, 4 in the center, 3 on an edge
ExpectedMoves(board) ==
  IF BlankCells(board) \subseteq Corners THEN 2
  ELSE IF BlankCells(board) \subseteq Center THEN 4 ELSE 3

(***************************************************************************)
(* The properties.                                                         *)
(***************************************************************************)
\* C1: when the first call of run on a fresh planner returns success, the
\* returned moves, applied in order from the initial state, find their two
\* preconditions at every step and end at the goal board.
C1_ForwardPlanReachesGoal ==
  (Returned /\ calls = 1 /\ result[1]) =>
    /\ Executable(initial_state, result[2])
    /\ Forward(initial_state, result[2]) = GoalBoard

C1_Witness == Returned /\ calls = 1 /\ result[1] /\ Len(result[2]) >= 2

\* C2: a call of run that ends because the budget was exceeded returns
\* false together with an empty list of moves.
C2_TimeoutReturnsEmptyList ==
  (Returned /\ ~result[1]) => result[2] = <<>>

\* C3: a successful call returns the moves regressed during that call, last
\* one first, and none of an earlier call; applied forward from the initial
\* state they are executable and end at the board current_state held when
\* the call began, which is the goal board only if that board was the goal.
C3_PlanOfThisCallOnly ==
  (Returned /\ result[1]) =>
    /\ Len(result[2]) = Len(history) - call_begin
    /\ \A k \in 1..Len(result[2]) : result[2][k] = history[Len(history) + 1 - k]
    /\ Executable(initial_state, result[2])
    /\ Forward(initial_state, result[2]) = start_state
    /\ (Forward(initial_state, result[2]) = GoalBoard <=> start_state = GoalBoard)

C3_Witness ==
  /\ Returned /\ calls = 2 /\ result[1]
  /\ result[2] # <<>>
  /\ call_begin > 0
  /\ start_state # GoalBoard

\* C4: current_state is the goal at construction and no step taken outside
\* the loop of run changes it: a call of run begins on the board the
\* previous call left.
C4_NeverReset ==
  /\ current_state = GoalBoard
  /\ [][pc = "idle" => current_state' = current_state]_vars

C4_Witness ==
  /\ pc = "loop" /\ calls = 2 /\ performed_operations = <<>>
  /\ ~result[1]
  /\ current_state # GoalBoard
  /\ current_state = start_state

\* C5: regression keeps current_state an even permutation of the goal, so
\* with an initial state that is an odd permutation of the goal
\* current_state never equals the initial state and every call of run that
\* returns, returns failure.
C5_UnsolvableNeverSucceeds ==
  /\ ~OddToGoal(current_state)
  /\ OddToGoal(initial_state) =>
       /\ current_state # initial_state
       /\ (Returned => ~result[1])

C5_Witness ==
  /\ OddToGoal(initial_state)
  /\ Returned /\ calls = 2 /\ ~result[1]
  /\ Len(history) > MaxOps

\* C6 as stated: initial state 1 2 3 / 8 4 _ / 7 6 5, fresh planner, budget
\* not exceeded: run returns success with the one move of tile 4 from cell
\* (2,3) to cell (2,2).
C6_OneMoveAsStated ==
  (/\ initial_state = convert_from_str_to_positions(<<1, 2, 3, 8, 4, 0, 7, 6, 5>>)
   /\ Returned /\ calls = 1
   /\ time_diff <= max_elaps_time) =>
    result = <<TRUE, << <<"move", 4, 2, 3, 2, 2>> >> >>

\* C6 amended: initial state 1 2 3 / 8 4 _ / 7 6 5, fresh planner, budget
\* not exceeded: run returns success with exactly one move, tile 4 from
\* cell (2,2), where it is in the initial state, to cell (2,3).
C6_OneMove ==
  (/\ initial_state = convert_from_str_to_positions(<<1, 2, 3, 8, 4, 0, 7, 6, 5>>)
   /\ Returned /\ calls = 1
   /\ time_diff <= max_elaps_time) =>
    result = <<TRUE, << <<"move", 4, 2, 2, 2, 3>> >> >>

C6_Witness ==
  /\ initial_state = convert_from_str_to_positions(<<1, 2, 3, 8, 4, 0, 7, 6, 5>>)
  /\ Returned /\ calls = 1
  /\ time_diff <= max_elaps_time
  /\ Len(result[2]) = 1

C8_CurrentStateWellFormed == WellFormed(current_state)

C8_Witness ==
  /\ calls = 2
  /\ Len(history) > MaxOps
  /\ current_state # GoalBoard
  /\ current_state # initial_state

\* C9: on a well-formed board get_possible_moves returns 2 moves when the
\* blank is in a corner, 3 when it is on an edge and 4 when it is in the
\* center.
C9_MoveCount ==
  \A board \in {current_state, initial_state} :
    WellFormed(board) =>
      /\ get_possible_moves(board) # {}
      /\ \A possible_moves \in get_possible_moves(board) :
           /\ Cardinality(possible_moves) = ExpectedMoves(board)
           /\ Cardinality(possible_moves) \in 2..4

C9_Witness ==
  /\ history # <<>>
  /\ BlankCells(current_state) \subseteq Corners
  /\ ~(BlankCells(initial_state) \subseteq Corners \cup Center)
  /\ \A possible_moves \in get_possible_moves(current_state) : Cardinality(possible_moves) = 2
  /\ \A possible_moves \in get_possible_moves(initial_state) : Cardinality(possible_moves) = 3

\* the tile at a cell of a board, 0 for the blank
TileAt(board, c) == (CHOOSE s \in board : s[3] = c[1] /\ s[4] = c[2])[2]

Dist(a, b) == IF a >= b THEN a - b ELSE b - a

\* the in-grid orthogonal neighbours of a cell
Adjacent(b) == {c \in (1..3) \X (1..3) : Dist(c[1], b[1]) + Dist(c[2], b[2]) = 1}

\* C13's candidate moves of a board
ExpectedCandidates(board) ==
  UNION {{<<"move", TileAt(board, c), b[1], b[2], c[1], c[2]>> : c \in Adjacent(b)}
         : b \in BlankCells(board)}

\* C12's score of a move: how many of its two preconditions the initial state holds
Score(m) ==
  (IF <<"on", m[2], m[3], m[4]>> \in initial_state THEN 1 ELSE 0)
  + (IF <<"clear", 0, m[5], m[6]>> \in initial_state THEN 1 ELSE 0)

\* C11: for a well-formed board and each of its candidate moves,
\* update_current_state gives (board minus add-list) plus preconditions, and
\* the move applied forward to that gives the board back.
C11_ClassicalRegression ==
  \A board \in {current_state, initial_state} :
    WellFormed(board) =>
      \A possible_moves \in get_possible_moves(board) :
        \A m \in possible_moves :
          LET regressed == update_current_state(board, m)
          IN  /\ regressed = (board \ operators[m].add) \cup operators[m].preconditions
              /\ ApplyMove(regressed, m) = board

C11_Witness ==
  /\ pc = "loop" /\ Len(performed_operations) >= 2
  /\ WellFormed(current_state)
  /\ operators[history[Len(history)]].preconditions \subseteq current_state
  /\ current_state # GoalBoard

\* C12: from every non-empty set of candidates pick_move can return exactly
\* the candidates of maximal score, the score being 0, 1 or 2.
C12_PickMaximalScore ==
  \A possible_moves \in get_possible_moves(current_state) :
    \A candidates \in (SUBSET possible_moves) \ {{}} :
      LET winner == pick_move(candidates, initial_state)
      IN  /\ winner = {m \in candidates : \A o \in candidates : Score(m) >= Score(o)}
          /\ winner # {}
          /\ \A m \in candidates : Score(m) \in 0..2

C12_Witness ==
  /\ pc = "loop" /\ history # <<>>
  /\ \E possible_moves \in get_possible_moves(current_state) :
       /\ Cardinality(pick_move(possible_moves, initial_state)) >= 2
       /\ pick_move(possible_moves, initial_state) # possible_moves

\* C13: on a well-formed board get_possible_moves returns the moves
\* (tile at the neighbour, blank cell, neighbour cell) for the in-grid
\* orthogonal neighbours of the blank; on the goal board the moves of tiles
\* 8, 6, 2 and 4 from (2,2) to (2,1), (3,2), (1,2) and (2,3).
C13_CandidateMoves ==
  /\ \A board \in {current_state, initial_state} :
       WellFormed(board) => get_possible_moves(board) = {ExpectedCandidates(board)}
  /\ get_possible_moves(GoalBoard)
       = {{<<"move", 8, 2, 2, 2, 1>>, <<"move", 6, 2, 2, 3, 2>>,
           <<"move", 2, 2, 2, 1, 2>>, <<"move", 4, 2, 2, 2, 3>>}}

C13_Witness ==
  /\ history # <<>>
  /\ current_state # GoalBoard
  /\ BlankCells(current_state) \subseteq Corners
  /\ get_possible_moves(current_state) = {ExpectedCandidates(current_state)}
  /\ history[Len(history)] \in ExpectedCandidates(start_state)

\* C14: goal_state stays the goal board and no step changes goal_state or
\* initial_state (or the budget), whatever is regressed on current_state.
C14_GoalAndInitialFixed ==
  /\ [](goal_state = GoalBoard)
  /\ [][/\ goal_state' = goal_state
        /\ initial_state' = initial_state
        /\ max_elaps_time' = max_elaps_time]_vars

C14_Witness ==
  /\ calls = 2 /\ Len(history) > MaxOps
  /\ current_state # goal_state
  /\ goal_state = GoalBoard

\* a solvable input three slides from the goal: 2 _ 3 / 1 8 4 / 7 6 5
CycleInput == convert_from_str_to_positions(<<2, 0, 3, 1, 8, 4, 7, 6, 5>>)

\* two boards the loop can alternate between on that input: the goal board
\* and 1 _ 3 / 8 2 4 / 7 6 5
CycleBoards == {GoalBoard, convert_from_str_to_positions(<<1, 0, 3, 8, 2, 4, 7, 6, 5>>)}

\* C15: on the solvable input CycleInput, whenever the loop is at one of
\* the two boards of CycleBoards it is not at the initial state and, the
\* budget not expiring, an iteration can take it to a board of CycleBoards
\* again: the loop can run forever without reaching the initial state.
C15_LoopCanCycle ==
  (/\ initial_state = CycleInput
   /\ pc = "loop"
   /\ current_state \in CycleBoards
   /\ Len(performed_operations) < MaxOps) =>
    /\ ~OddToGoal(initial_state)
    /\ current_state # initial_state
    /\ ENABLED (LoopBody /\ pc' = "loop" /\ current_state' \in CycleBoards)

\* the loop is back at the board the call began on, two iterations later
C15_Witness ==
  /\ initial_state = CycleInput
  /\ pc = "loop"
  /\ Len(performed_operations) = 2
  /\ current_state = GoalBoard
  /\ start_state = GoalBoard
  /\ time_diff <= max_elaps_time

\* C16: when the clock advances during every iteration, every call of run
\* that has begun returns; and a call that returned failure exceeded its
\* budget after regressing at least one move.
C16_RunReturns ==
  /\ (pc = "loop") ~> (pc = "idle")
  /\ [](Returned /\ ~result[1] =>
          /\ Len(history) - call_begin >= 1
          /\ Len(result[2]) = Len(history) - call_begin
          /\ time_diff > max_elaps_time)

C16_Witness ==
  /\ Returned /\ ~result[1]
  /\ max_elaps_time = MaxBudget
  /\ Len(history) - call_begin = MaxBudget + 1
  /\ OddToGoal(initial_state)

\* C17: a call of run returns success only with current_state equal to the
\* initial state; after a call has returned success no step changes
\* current_state and every later call returns success with an empty list.
C17_SuccessIsFinal ==
  /\ [](Returned /\ result[1] => current_state = initial_state)
  /\ [][(result # <<>> /\ result[1]) =>
          /\ current_state' = current_state
          /\ current_state' = initial_state
          /\ result'[1]
          /\ (pc = "loop" => result' = <<TRUE, <<>>>>)]_vars

C17_Witness ==
  /\ Returned /\ calls = 2
  /\ result = <<TRUE, <<>>>>
  /\ history # <<>>
  /\ call_begin = Len(history)
  /\ start_state = initial_state
  /\ current_state = initial_state

\* C18's keys: every tile 1..8 with every ordered pair of adjacent cells
AllMoves ==
  UNION {{<<"move", x, a[1], a[2], b[1], b[2]>> : x \in 1..8, b \in Adjacent(a)}
         : a \in (1..3) \X (1..3)}

\* C18: every move get_possible_moves returns on current_state carries a
\* tile in 1..8 and is a key of the operator table, whose keys are all
\* tiles with all ordered pairs of adjacent cells, so that the lookups of
\* pick_move and update_current_state are defined.
C18_MovesAreOperators ==
  /\ get_possible_moves(current_state) # {}
  /\ \A possible_moves \in get_possible_moves(current_state) :
       \A m \in possible_moves : m[2] \in 1..8 /\ m \in DOMAIN operators
  /\ DOMAIN operators = AllMoves
  /\ Cardinality(DOMAIN operators) = 192

C18_Witness ==
  /\ pc = "loop" /\ calls = 2
  /\ performed_operations # <<>>
  /\ call_begin > 0
  /\ history[Len(history)] \in DOMAIN operators
  /\ history[Len(history)][2] \in 1..8

\* C19: in the file mode, once the messages of the 1 minute limit are
\* printed the program has ended: no further line is solved.
C19_EndsAfterOneMinute == announced => fpc = "done"

====
